---- MODULE Spec2Model ----
(***************************************************************************)
(* Model of samples/ios_sms_export/export_ios_sms.py: the timestamp        *)
(* normalizer, the attachment resolver, the filename sanitizer, and the    *)
(* export run (export_chats / export_for_contact / format_message) acting  *)
(* on the output directory.                                                *)
(*                                                                         *)
(* Representation.                                                         *)
(*  - An optional value (Python None or a value) is a sequence of length   *)
(*    0 or 1: None == <<>>, Some(x) == <<x>>.                              *)
(*  - A handle is a sequence of one-character strings.                     *)
(*  - A file name is a record [up, base, sfx, ext]: the string             *)
(*    ("../" if up) + base + "_n" for each n of sfx + ext.  Path.stem is   *)
(*    base with its numeric suffixes, Path.suffix is ext.                  *)
(*  - A path below the attachments root is a sequence of components; the   *)
(*    component MARKER stands for "Library/SMS/Attachments/".              *)
(*  - Integers wider than 32 bits are little numbers in base 10^9:         *)
(*    <<l2, l1, l0>> is l2*10^18 + l1*10^9 + l0.                           *)
(***************************************************************************)
EXTENDS Integers, Sequences, FiniteSets, TLC

VARIABLES
    \* ---- the timestamp normalizer applied to one input
    ts_value, ts_result,
    \* ---- the attachment resolver applied to one input
    ra_raw, ra_result,
    \* ---- the export run: configuration (fixed by main / parse_args)
    contacts, include_media, overwrite, attachments_root, store, root,
    \* ---- the output directory
    transcripts, mediaDirs, strays,
    \* ---- the position of the run
    run, idx, pc, error, rows, rowIdx, exported,
    \* ---- history: what each row did, the output directory when the current
    \* ---- contact was entered, what earlier contacts of this run produced,
    \* ---- and the transcripts the first run left
    log, atEntry, produced, firstRun

tsVars == <<ts_value, ts_result>>
raVars == <<ra_raw, ra_result>>
cfgVars == <<contacts, include_media, overwrite, attachments_root, store>>
fsVars == <<transcripts, mediaDirs, strays>>
posVars == <<run, idx, pc, error, rows, rowIdx, exported>>
histVars == <<log, atEntry, produced, firstRun>>
vars == <<tsVars, raVars, cfgVars, root, fsVars, posVars, histVars>>

None == <<>>
Some(x) == <<x>>

(***************************************************************************)
(* apple_timestamp_to_datetime                                             *)
(***************************************************************************)
Billion == 1000000000

\* 10**12, the seconds / nanoseconds threshold
NanoThreshold == <<0, 1000, 0>>

\* datetime.max - APPLE_EPOCH = 252423993599.999999 s: the last whole second
\* APPLE_EPOCH + timedelta can reach before datetime raises OverflowError
MaxOffset == <<252, 423993599>>

\* APPLE_EPOCH - datetime.min = 63113904000 s
MinOffset == <<63, 113904000>>

\* a > b for two-limb numbers
Gt2(a, b) == a[1] > b[1] \/ (a[1] = b[1] /\ a[2] > b[2])

\* a > b for three-limb numbers
Gt3(a, b) == a[1] > b[1] \/ (a[1] = b[1] /\ Gt2(<<a[2], a[3]>>, <<b[2], b[3]>>))

NoDatetime == [tag |-> "none", neg |-> FALSE, secs |-> <<0, 0>>, micro |-> 0]
Overflow == [tag |-> "raise", neg |-> FALSE, secs |-> <<0, 0>>, micro |-> 0]
Datetime(n, s, m) == [tag |-> "datetime", neg |-> n, secs |-> s, micro |-> m]

\* timedelta(seconds=float): the fraction rounded half-even to microseconds
RoundMicro(nanos) ==
    LET q == nanos \div 1000
        r == nanos % 1000
    IN  IF r > 500 \/ (r = 500 /\ q % 2 = 1) THEN q + 1 ELSE q

\* two-limb number plus one
Succ2(s) == IF s[2] + 1 = Billion THEN <<s[1] + 1, 0>> ELSE <<s[1], s[2] + 1>>

\* APPLE_EPOCH + timedelta(seconds = secs + micro/10^6), secs >= 0
EpochPlus(secs, micro) ==
    LET carried == micro = 1000000
        s == IF carried THEN Succ2(secs) ELSE secs
        m == IF carried THEN 0 ELSE micro
    IN  IF Gt2(s, MaxOffset) THEN Overflow ELSE Datetime(FALSE, s, m)

\* APPLE_EPOCH - timedelta(seconds = secs), secs > 0
EpochMinus(secs) ==
    IF Gt2(secs, MinOffset) THEN Overflow ELSE Datetime(TRUE, secs, 0)

apple_timestamp_to_datetime(value) ==
    IF value.kind = "null" THEN NoDatetime
    ELSE IF value.kind \in {"text", "nan"} THEN NoDatetime   \* TypeError, ValueError
    ELSE IF value.kind = "inf" THEN Overflow                 \* int(inf): OverflowError
    ELSE LET n == value.limbs                                \* int(value) truncates a real
         IN  IF n = <<0, 0, 0>> THEN NoDatetime
             ELSE IF ~value.neg /\ Gt3(n, NanoThreshold)
                  THEN EpochPlus(<<n[1], n[2]>>, RoundMicro(n[3]))
             ELSE IF value.neg
                  THEN IF n[1] > 0 THEN Overflow ELSE EpochMinus(<<n[2], n[3]>>)
             ELSE EpochPlus(<<n[2], n[3]>>, 0)

(***************************************************************************)
(* sanitize_filename                                                       *)
(***************************************************************************)
\* the characters of [\w.-] among those the model's strings are made of
SafeChars == {"a", "b", "c", "p", "q", "_", ".", "-"}
Whitespace == {" "}

RECURSIVE LStrip(_)
LStrip(s) == IF s # <<>> /\ Head(s) \in Whitespace THEN LStrip(Tail(s)) ELSE s

RECURSIVE RStrip(_)
RStrip(s) ==
    IF s # <<>> /\ s[Len(s)] \in Whitespace THEN RStrip(SubSeq(s, 1, Len(s) - 1)) ELSE s

\* re.sub(r"[^\w.-]+", "_", s): every maximal run of other characters becomes one "_"
RECURSIVE SubUnsafe(_, _)
SubUnsafe(s, inRun) ==
    IF s = <<>> THEN <<>>
    ELSE IF Head(s) \in SafeChars THEN <<Head(s)>> \o SubUnsafe(Tail(s), FALSE)
    ELSE IF inRun THEN SubUnsafe(Tail(s), TRUE)
    ELSE <<"_">> \o SubUnsafe(Tail(s), TRUE)

sanitize_filename(handle) ==
    LET sanitized == SubUnsafe(RStrip(LStrip(handle)), FALSE)
    IN  IF sanitized = <<>> THEN <<"contact">> ELSE sanitized

(***************************************************************************)
(* resolve_attachment_path                                                 *)
(***************************************************************************)
MARKER == "Library/SMS/Attachments/"

\* Path.exists() below the attachments root: the root itself, a file, or a
\* directory on the way to a file
RootExists(files, path) ==
    \/ path = <<>>
    \/ \E f \in files : Len(f) >= Len(path) /\ SubSeq(f, 1, Len(path)) = path

RootIsFile(files, path) == path \in files

\* ATTACHMENT_ANCHOR.search: the leftmost marker, 0 when there is none
RECURSIVE AnchorAt(_, _)
AnchorAt(frag, i) ==
    IF i > Len(frag) THEN 0
    ELSE IF frag[i] = MARKER THEN i
    ELSE AnchorAt(frag, i + 1)

Found(path) == [found |-> TRUE, path |-> path]
NotFound == [found |-> FALSE, path |-> <<>>]

\* resolve_attachment_path without the second candidate
resolve_primary_only(raw_path, files) ==
    IF raw_path = None \/ raw_path = Some(<<>>) THEN NotFound
    ELSE LET frag == raw_path[1]
             at == AnchorAt(frag, 1)
         IN  IF at = 0 THEN NotFound
             ELSE LET relative == SubSeq(frag, at + 1, Len(frag))
                      candidate == <<MARKER>> \o relative
                  IN  IF RootExists(files, candidate) THEN Found(candidate)
                      ELSE NotFound

resolve_attachment_path(raw_path, files) ==
    IF raw_path = None \/ raw_path = Some(<<>>) THEN NotFound
    ELSE LET frag == raw_path[1]
             at == AnchorAt(frag, 1)
         IN  IF at = 0 THEN NotFound
             ELSE LET relative == SubSeq(frag, at + 1, Len(frag))
                      candidate == <<MARKER>> \o relative
                  IN  IF RootExists(files, candidate) THEN Found(candidate)
                      ELSE IF RootExists(files, relative) THEN Found(relative)
                      ELSE NotFound

(***************************************************************************)
(* File names and the output directory                                     *)
(***************************************************************************)
Name(base, sfx, ext) == [up |-> FALSE, base |-> base, sfx |-> sfx, ext |-> ext]

\* "../" + name: a name whose parent is the directory above
UpName(base, sfx, ext) == [up |-> TRUE, base |-> base, sfx |-> sfx, ext |-> ext]

\* Path.name: the last component alone
BaseName(n) == [n EXCEPT !.up = FALSE]

\* Path.name of a file below the attachments root
ParseName(component) ==
    CASE component = "p.j" -> Name(<<"p">>, <<>>, ".j")
      [] component = "q.j" -> Name(<<"q">>, <<>>, ".j")
      [] OTHER -> Name(<<component>>, <<>>, "")

\* output_dir / f"{sanitized}.txt"
TextName(sanitized) == Name(sanitized, <<>>, ".txt")

\* output_dir / f"{sanitized}_attachments"
DirName(sanitized) == Name(sanitized, <<>>, "_attachments")

NOT_FOUND_NOTE == Name(<<"(Anhang nicht gefunden im Backup)">>, <<>>, "")

Handles == {<<"a", " ", "b">>, <<"a", "_", "b">>, <<"c">>}
SanNames == {sanitize_filename(h) : h \in Handles}

\* Path.exists() of output_dir / n
OutExists(texts, dirs, loose, n) ==
    \/ \E e \in loose : e.name = n
    \/ \E s \in SanNames : texts[s] # None /\ TextName(s) = n
    \/ \E s \in SanNames : dirs[s] # None /\ DirName(s) = n

\* Path.exists() of attachments_dir / n, the directory existing
DestExists(texts, dirs, loose, san, n) ==
    IF n.up THEN OutExists(texts, dirs, loose, BaseName(n))
    ELSE \E e \in dirs[san][1] : e.name = n

\* the while loop of format_message: f"{base_name}_{suffix}{suffix_str}"
RECURSIVE FreeDestination(_, _, _, _, _, _, _)
FreeDestination(texts, dirs, loose, san, destination, stem, suffix) ==
    IF DestExists(texts, dirs, loose, san, destination)
    THEN FreeDestination(texts, dirs, loose, san,
                         Name(stem.base, Append(stem.sfx, suffix), stem.ext),
                         stem, suffix + 1)
    ELSE destination

\* shutil.copy2 into a directory's entries: an existing name is replaced
AddFile(entries, n, content) ==
    {e \in entries : e.name # n} \cup {[name |-> n, content |-> content]}

(***************************************************************************)
(* format_message                                                          *)
(***************************************************************************)
TimestampText(timestamp) ==
    IF timestamp.tag = "none" THEN <<"Unbekannte Zeit">>
    ELSE <<"%Y-%m-%d %H:%M:%S", timestamp.neg, timestamp.secs>>

RECURSIVE ReplaceCRLF(_)
ReplaceCRLF(s) ==
    IF s = <<>> THEN <<>>
    ELSE IF Len(s) >= 2 /\ s[1] = "CR" /\ s[2] = "LF"
         THEN <<"LF">> \o ReplaceCRLF(SubSeq(s, 3, Len(s)))
    ELSE <<Head(s)>> \o ReplaceCRLF(Tail(s))

ReplaceCR(s) == [i \in 1..Len(s) |-> IF s[i] = "CR" THEN "LF" ELSE s[i]]

Body(text) ==
    LET body == ReplaceCR(ReplaceCRLF(IF text = None THEN <<>> ELSE text[1]))
    IN  IF body = <<>> THEN <<"(kein Text)">> ELSE body

Sender(row, handle_identifier) == IF row.is_from_me THEN <<"Ich">> ELSE handle_identifier

\* row["filename"] is truthy
HasFilename(row) == row.filename # None /\ row.filename # Some(<<>>)

\* What format_message does for one row: the exception it raises (None when it
\* returns), the line it returns, the output directory it leaves, and what it did
\* about the attachment.
format_message(row, handle_identifier, attachments_dir, att_root, media) ==
    LET timestamp == apple_timestamp_to_datetime(row.date)
        attempted == media /\ attachments_dir # None /\ att_root # None
        found == IF attempted THEN resolve_attachment_path(row.filename, root)
                 ELSE NotFound
        san == attachments_dir[1]
        made == [mediaDirs EXCEPT ![san] = IF @ = None THEN Some({}) ELSE @]
        destination_name ==
            IF row.transfer_name # None THEN row.transfer_name[1]
            ELSE ParseName(found.path[Len(found.path)])
        destination ==
            FreeDestination(transcripts, made, strays, san, destination_name,
                            destination_name, 1)
        note == IF attempted /\ found.found THEN <<BaseName(destination)>>
                ELSE IF HasFilename(row) /\ media THEN <<NOT_FOUND_NOTE>>
                ELSE <<>>
        line == [timestamp_text |-> TimestampText(timestamp),
                 sender |-> Sender(row, handle_identifier),
                 body |-> Body(row.text),
                 attachments |-> note]
        did(outcome, dest, src) ==
            [attempted |-> attempted, outcome |-> outcome, dest |-> dest, src |-> src]
        nothing == Name(<<>>, <<>>, "")
        unwritten == [timestamp_text |-> <<>>, sender |-> <<>>, body |-> <<>>,
                      attachments |-> <<>>]
    IN  IF timestamp.tag = "raise"
        THEN [raised |-> Some("OverflowError"), line |-> unwritten, dirs |-> mediaDirs,
              loose |-> strays, did |-> did("raised", nothing, <<>>)]
        ELSE IF ~(attempted /\ found.found)
        THEN [raised |-> None, line |-> line, dirs |-> mediaDirs, loose |-> strays,
              did |-> did(IF HasFilename(row) /\ media THEN "not_found" ELSE "none",
                          nothing, <<>>)]
        ELSE IF ~RootIsFile(root, found.path)
        THEN [raised |-> Some("IsADirectoryError"), line |-> unwritten, dirs |-> made,
              loose |-> strays, did |-> did("raised", nothing, found.path)]
        ELSE [raised |-> None, line |-> line,
              dirs |-> IF destination.up THEN made
                       ELSE [made EXCEPT ![san] =
                               Some(AddFile(@[1], destination, found.path))],
              loose |-> IF destination.up
                        THEN AddFile(strays, BaseName(destination), found.path)
                        ELSE strays,
              did |-> did("copied", destination, found.path)]

(***************************************************************************)
(* export_for_contact, export_chats: one step per statement                *)
(***************************************************************************)
Handle == contacts[idx]
San == sanitize_filename(Handle)

\* attachments_dir of export_for_contact
attachments_dir == IF include_media THEN Some(San) ELSE None

\* ensure_output_path never raising
ensure_output_path_unguarded(exists, ow) == FALSE

\* ensure_output_path raises FileExistsError.  Its mkdir of the parent changes
\* nothing: main has made output_dir.
ensure_output_path(exists, ow) == exists /\ ~ow

\* the rows of the query, which the store returns ordered by date and ROWID
fetch_messages(handle_identifier) == store[handle_identifier]

Raise(exception) == pc' = "failed" /\ error' = Some(exception)

Snapshot == [transcripts |-> transcripts, mediaDirs |-> mediaDirs, strays |-> strays]

\* the files the current contact's rows copied so far
Copied == {[name |-> log[i].dest, content |-> log[i].src] :
              i \in {j \in 1..Len(log) : log[j].outcome = "copied"}}

\* for handle_identifier in contacts: the next contact is entered
NextContact ==
    /\ pc = "loop" /\ idx <= Len(contacts)
    /\ pc' = "ensure"
    /\ atEntry' = Snapshot
    /\ log' = <<>> /\ rows' = <<>> /\ rowIdx' = 1
    /\ UNCHANGED <<tsVars, raVars, cfgVars, root, fsVars, run, idx, error, exported,
                   produced, firstRun>>

\* the loop is exhausted: export_chats returns exported
Finish ==
    /\ pc = "loop" /\ idx > Len(contacts)
    /\ pc' = "done"
    /\ UNCHANGED <<tsVars, raVars, cfgVars, root, fsVars, run, idx, error, rows, rowIdx,
                   exported, histVars>>

EnsureOutputPath ==
    /\ pc = "ensure"
    /\ IF ensure_output_path(transcripts[San] # None, overwrite)
       THEN Raise("FileExistsError")
       ELSE pc' = "media" /\ error' = error
    /\ UNCHANGED <<tsVars, raVars, cfgVars, root, fsVars, run, idx, rows, rowIdx,
                   exported, histVars>>

\* PrepareMedia with the directory handled whether or not media is exported
PrepareMediaUnconditional ==
    /\ pc = "media"
    /\ IF mediaDirs[San] # None /\ ~overwrite
       THEN Raise("FileExistsError") /\ mediaDirs' = mediaDirs
       ELSE /\ pc' = "fetch" /\ error' = error
            /\ mediaDirs' = [mediaDirs EXCEPT ![San] = None]
    /\ UNCHANGED <<tsVars, raVars, cfgVars, root, transcripts, strays, run, idx, rows,
                   rowIdx, exported, histVars>>

\* if include_media: the directory check and the rmtree
PrepareMedia ==
    /\ pc = "media"
    /\ IF include_media /\ mediaDirs[San] # None /\ ~overwrite
       THEN Raise("FileExistsError") /\ mediaDirs' = mediaDirs
       ELSE /\ pc' = "fetch" /\ error' = error
            /\ mediaDirs' = IF include_media /\ mediaDirs[San] # None /\ overwrite
                            THEN [mediaDirs EXCEPT ![San] = None]
                            ELSE mediaDirs
    /\ UNCHANGED <<tsVars, raVars, cfgVars, root, transcripts, strays, run, idx, rows,
                   rowIdx, exported, histVars>>

\* FetchMessages without the test for an empty result
FetchMessagesUnchecked ==
    /\ pc = "fetch"
    /\ rows' = fetch_messages(Handle)
    /\ pc' = "open" /\ error' = error
    /\ UNCHANGED <<tsVars, raVars, cfgVars, root, fsVars, run, idx, rowIdx, exported,
                   histVars>>

\* rows = fetch_messages(...); if not rows: raise ValueError
FetchMessages ==
    /\ pc = "fetch"
    /\ rows' = fetch_messages(Handle)
    /\ IF rows' = <<>> THEN Raise("ValueError") ELSE pc' = "open" /\ error' = error
    /\ UNCHANGED <<tsVars, raVars, cfgVars, root, fsVars, run, idx, rowIdx, exported,
                   histVars>>

\* text_path.open("w"): the transcript is created, or truncated
OpenTranscript ==
    /\ pc = "open"
    /\ transcripts' = [transcripts EXCEPT ![San] = Some(<<>>)]
    /\ pc' = "rows" /\ rowIdx' = 1
    /\ UNCHANGED <<tsVars, raVars, cfgVars, root, mediaDirs, strays, run, idx, error,
                   rows, exported, histVars>>

\* one turn of the row loop: format_message, then fh.write(line + "\n")
WriteRow ==
    /\ pc = "rows" /\ rowIdx <= Len(rows)
    /\ LET r == format_message(rows[rowIdx], Handle, attachments_dir,
                               attachments_root, include_media)
       IN  /\ mediaDirs' = r.dirs
           /\ strays' = r.loose
           /\ log' = Append(log, r.did)
           /\ IF r.raised # None
              THEN /\ pc' = "failed" /\ error' = r.raised
                   /\ UNCHANGED <<transcripts, rowIdx>>
              ELSE /\ transcripts' =
                        [transcripts EXCEPT ![San] = Some(Append(@[1], r.line))]
                   /\ rowIdx' = rowIdx + 1
                   /\ UNCHANGED <<pc, error>>
    /\ UNCHANGED <<tsVars, raVars, cfgVars, root, run, idx, rows, exported, atEntry,
                   produced, firstRun>>

\* the rows are exhausted: the with block closes the transcript
CloseTranscript ==
    /\ pc = "rows" /\ rowIdx > Len(rows)
    /\ pc' = "return"
    /\ UNCHANGED <<tsVars, raVars, cfgVars, root, fsVars, run, idx, error, rows, rowIdx,
                   exported, histVars>>

\* return text_path; exported.append(exported_path)
ReturnPath ==
    /\ pc = "return"
    /\ exported' = Append(exported, TextName(San))
    /\ produced' = Append(produced, [san |-> San, lines |-> transcripts[San][1],
                                     files |-> Copied])
    /\ idx' = idx + 1
    /\ pc' = "loop"
    /\ UNCHANGED <<tsVars, raVars, cfgVars, root, fsVars, run, error, rows, rowIdx,
                   log, atEntry, firstRun>>

\* the tool is run a second time with the same arguments
RunAgain ==
    /\ pc \in {"done", "failed"} /\ run = 1
    /\ run' = 2
    /\ firstRun' = transcripts
    /\ idx' = 1 /\ pc' = "loop" /\ error' = None
    /\ rows' = <<>> /\ rowIdx' = 1 /\ exported' = <<>>
    /\ log' = <<>> /\ produced' = <<>> /\ atEntry' = Snapshot
    /\ UNCHANGED <<tsVars, raVars, cfgVars, root, fsVars>>

\* apple_timestamp_to_datetime applied to ts_value
Normalize ==
    /\ ts_result = None
    /\ ts_result' = Some(apple_timestamp_to_datetime(ts_value))
    /\ UNCHANGED <<ts_value, raVars, cfgVars, root, fsVars, posVars, histVars>>

\* resolve_attachment_path applied to ra_raw below root
Resolve ==
    /\ ra_result = None
    /\ ra_result' = Some(resolve_attachment_path(ra_raw, root))
    /\ UNCHANGED <<tsVars, ra_raw, cfgVars, root, fsVars, posVars, histVars>>

(***************************************************************************)
(* Inputs                                                                  *)
(***************************************************************************)
MaxContacts == 2
MaxRows == 3
MaxFragLen == 3

IntValue(n) == [kind |-> "int", neg |-> FALSE, limbs |-> <<0, 0, n>>]
NullValue == [kind |-> "null", neg |-> FALSE, limbs |-> <<0, 0, 0>>]

\* fractions of a second that the float quotient value / 1_000_000_000 holds
\* exactly at any magnitude met here
ExactNanos == {0, 1, 250000000}

TimestampInputs ==
    {v \in [kind : {"int"}, neg : {FALSE},
            limbs : {0, 252, 253}
                    \X {0, 1, 252, 253, 1000, 1001, 423993599, 423993600}
                    \X (ExactNanos \cup {423993599, 423993600})] :
        v.limbs[1] > 0 => v.limbs[3] \in ExactNanos}
    \* a real below 2^53, given by its integer part
    \cup [kind : {"real"}, neg : {FALSE},
          limbs : {0} \X {0, 1, 252, 253, 1000, 1001}
                  \X (ExactNanos \cup {423993599, 423993600})]
    \cup {[kind |-> "int", neg |-> TRUE, limbs |-> n] :
             n \in {<<0, 0, 5>>, <<0, 63, 113904000>>, <<0, 63, 113904001>>}}
    \cup {[kind |-> k, neg |-> FALSE, limbs |-> <<0, 0, 0>>] :
             k \in {"null", "text", "nan", "inf"}}

SeqsUpTo(S, n) == UNION {[1..k -> S] : k \in 0..n}

FragTokens == {MARKER, "ab", "p.j"}
RawInputs == {None} \cup {Some(f) : f \in SeqsUpTo(FragTokens, MaxFragLen)}
RootUniverse ==
    {<<MARKER, "ab", "p.j">>, <<"ab", "p.j">>, <<MARKER, "p.j">>, <<"p.j">>}

\* the backup the export runs read
BackupFiles == {<<MARKER, "ab", "p.j">>, <<"cd", "q.j">>}
FragPhoto == <<"~", MARKER, "ab", "p.j">>
FragLoose == <<"~", MARKER, "cd", "q.j">>
FragGone == <<"~", MARKER, "zz">>
FragBare == <<"ab", "p.j">>
FragDir == <<"~", MARKER, "ab">>

Photo == Name(<<"p">>, <<>>, ".j")

Row(date, me, text, filename, transfer_name) ==
    [message_id |-> 0, date |-> date, is_from_me |-> me, text |-> text,
     filename |-> filename, transfer_name |-> transfer_name]

PlainRow == Row(IntValue(0), TRUE, None, None, None)
PhotoRow == Row(IntValue(5), FALSE, Some(<<"h", "CR", "LF", "i">>), Some(FragPhoto), Some(Photo))
SimpleRows == {PlainRow, PhotoRow}

RichRows ==
    SimpleRows \cup
    {Row(IntValue(5), FALSE, Some(<<"h">>), Some(f[1]), f[2]) :
        f \in {<<FragPhoto, None>>,
               <<FragPhoto, Some(Name(<<"p">>, <<1>>, ".j"))>>,
               <<FragPhoto, Some(NOT_FOUND_NOTE)>>,
               <<FragPhoto, Some(UpName(<<"p">>, <<>>, ".j"))>>,
               <<FragLoose, None>>,
               <<FragGone, Some(Photo)>>,
               <<FragBare, Some(Photo)>>,
               <<FragDir, None>>,
               <<<<>>, None>>}}

\* ORDER BY m.date, m.ROWID
Ordered(conv) ==
    \A i, j \in 1..Len(conv) : i < j => ~Gt3(conv[i].date.limbs, conv[j].date.limbs)

Numbered(conv) == [i \in 1..Len(conv) |-> [conv[i] EXCEPT !.message_id = i]]

Conversations(templates, n) ==
    {Numbered(conv) : conv \in {c \in SeqsUpTo(templates, n) : Ordered(c)}}

OldLine == [timestamp_text |-> <<"Unbekannte Zeit">>, sender |-> <<"Ich">>,
            body |-> <<"old">>, attachments |-> <<>>]
OldFile == [name |-> Photo, content |-> <<"old">>]

\* outputs an earlier invocation left for one sanitized name
Leftover(s, kind) ==
    /\ transcripts = [t \in SanNames |->
                        IF t = s /\ kind \in {"text", "both"} THEN Some(<<OldLine>>)
                        ELSE None]
    /\ mediaDirs = [t \in SanNames |->
                        IF t = s /\ kind \in {"dir", "both"} THEN Some({OldFile})
                        ELSE None]
    /\ strays = {}

NoOutputs ==
    /\ transcripts = [t \in SanNames |-> None]
    /\ mediaDirs = [t \in SanNames |-> None]
    /\ strays = {}

TimestampIdle == ts_value = NullValue /\ ts_result = None
ResolveIdle == ra_raw = None /\ ra_result = None

RunStart ==
    /\ run = 1 /\ idx = 1 /\ pc = "loop" /\ error = None
    /\ rows = <<>> /\ rowIdx = 1 /\ exported = <<>>
    /\ log = <<>> /\ produced = <<>>
    /\ atEntry = Snapshot
    /\ firstRun = [t \in SanNames |-> None]

\* parse_args: --include-media needs --attachments-root
Flags ==
    /\ include_media \in BOOLEAN
    /\ overwrite \in BOOLEAN
    /\ attachments_root \in {None, Some("root")}
    /\ include_media => attachments_root # None

RunIdle ==
    /\ contacts = <<>> /\ include_media = FALSE /\ overwrite = FALSE
    /\ attachments_root = None
    /\ store = [h \in Handles |-> <<>>]
    /\ NoOutputs
    /\ RunStart

\* a run over up to MaxContacts contacts of one row at most each
Init ==
    /\ TimestampIdle /\ ResolveIdle
    /\ root = BackupFiles
    /\ contacts \in SeqsUpTo(Handles, MaxContacts) \ {<<>>}
    /\ Flags
    /\ store \in [Handles -> Conversations(SimpleRows, 1)]
    /\ \A h \in Handles : (\A i \in 1..Len(contacts) : contacts[i] # h) => store[h] = <<>>
    /\ \E s \in SanNames, kind \in {"none", "text", "dir", "both"} : Leftover(s, kind)
    /\ RunStart

\* a run over one contact of up to MaxRows rows
InitContact ==
    /\ TimestampIdle /\ ResolveIdle
    /\ root = BackupFiles
    /\ contacts = <<(<<"c">>)>>
    /\ Flags
    /\ \E conv \in Conversations(RichRows, MaxRows) :
          store = [h \in Handles |-> IF h = <<"c">> THEN conv ELSE <<>>]
    /\ \E kind \in {"none", "text", "dir", "both"} : Leftover(<<"c">>, kind)
    /\ RunStart

InitTime ==
    /\ ts_value \in TimestampInputs /\ ts_result = None
    /\ ResolveIdle /\ root = BackupFiles /\ RunIdle

InitResolve ==
    /\ ra_raw \in RawInputs /\ ra_result = None
    /\ root \in SUBSET RootUniverse
    /\ TimestampIdle /\ RunIdle

Next ==
    \/ NextContact
    \/ Finish
    \/ EnsureOutputPath
    \/ PrepareMedia
    \/ FetchMessages
    \/ OpenTranscript
    \/ WriteRow
    \/ CloseTranscript
    \/ ReturnPath

NextTwice == Next \/ RunAgain

Spec == Init /\ [][Next]_vars
SpecContact == InitContact /\ [][NextTwice]_vars
SpecTime == InitTime /\ [][Normalize]_vars
SpecResolve == InitResolve /\ [][Resolve]_vars

(***************************************************************************)
(* Properties                                                              *)
(***************************************************************************)
Lines(s) == transcripts[s][1]

\* C1: a contact whose fetch returns no rows fails with the no-data error
\* (ValueError): the export never gets past the fetch, a transcript that was
\* absent when the contact was entered is still absent, and nothing is appended
\* to exported for it.
C1_NoDataFails ==
    /\ pc \in {"open", "rows", "return"} => fetch_messages(Handle) # <<>>
    /\ (pc = "failed" /\ error = Some("ValueError")) =>
          /\ fetch_messages(Handle) = <<>>
          /\ atEntry.transcripts[San] = None => transcripts[San] = None
          /\ Len(exported) = idx - 1

\* the second contact of a run failed for want of rows, with no transcript before
C1_Witness ==
    /\ pc = "failed" /\ error = Some("ValueError")
    /\ idx = 2 /\ atEntry.transcripts[San] = None /\ transcripts[San] = None
    /\ Len(exported) = 1

\* the transcript, or with media export the attachment directory, was there when
\* the contact was entered and overwrite is not set
Blocked ==
    /\ ~overwrite
    /\ \/ atEntry.transcripts[San] # None
       \/ include_media /\ atEntry.mediaDirs[San] # None

\* C2: when the transcript (or, with media export, the attachment directory)
\* exists and overwrite is not set, the export raises FileExistsError before it
\* fetches, the output directory is as it was when the contact was entered, and
\* the run takes no further step; also for a contact whose sanitized name is
\* that of a contact exported earlier in the run.
C2_OutputExistsAborts ==
    /\ pc \in {"fetch", "open", "rows", "return"} => ~Blocked
    /\ (pc \in {"ensure", "media", "failed"} /\ Blocked) => Snapshot = atEntry
    /\ (pc = "failed" /\ error = Some("FileExistsError")) =>
          Blocked /\ Snapshot = atEntry /\ ~ENABLED Next

\* the second contact met the transcript that the first, another handle of the
\* same sanitized name, wrote in this run
C2_Witness ==
    /\ pc = "failed" /\ error = Some("FileExistsError")
    /\ idx = 2 /\ contacts[1] # contacts[2]
    /\ Len(produced) = 1 /\ produced[1].san = San
    /\ transcripts[San] = Some(produced[1].lines)

\* C3 as claimed: at every point of the run, every attachment name that a line
\* of a transcript on disk references is a file of that contact's media
\* directory.
C3_AsClaimed ==
    \A s \in SanNames :
        transcripts[s] # None =>
            \A i \in 1..Len(Lines(s)) :
                \A k \in 1..Len(Lines(s)[i].attachments) :
                    LET n == Lines(s)[i].attachments[k]
                    IN  n # NOT_FOUND_NOTE =>
                            /\ mediaDirs[s] # None
                            /\ \E e \in mediaDirs[s][1] : e.name = n

\* the transcript and every copied file a contact's export returned with are
\* on disk unchanged
StillOnDisk(p) ==
    /\ transcripts[p.san] = Some(p.lines)
    /\ \A f \in p.files :
          IF f.name.up THEN [name |-> BaseName(f.name), content |-> f.content] \in strays
          ELSE /\ mediaDirs[p.san] # None
               /\ f \in mediaDirs[p.san][1]

\* C4 as claimed: when every row of a contact that records a file has it
\* resolved and copied, the media directory holds one file per such row, no two
\* rows share a destination, each file has the content of its row's source, and
\* each line references the name its row's file was copied to.
C4_AsClaimed ==
    (/\ pc = "return" /\ include_media
     /\ \A i \in 1..Len(rows) : HasFilename(rows[i]) => log[i].outcome = "copied")
    =>
    LET copies == {i \in 1..Len(rows) : log[i].outcome = "copied"}
        held == IF mediaDirs[San] = None THEN {} ELSE mediaDirs[San][1]
    IN  /\ Cardinality(held) = Cardinality(copies)
        /\ \A i, j \in copies : i # j => log[i].dest # log[j].dest
        /\ \A i \in copies :
              /\ Lines(San)[i].attachments = <<log[i].dest>>
              /\ [name |-> log[i].dest, content |-> log[i].src] \in held

\* C5 as claimed: contacts are taken in order, the first failure ends the run
\* with nothing appended for the failing contact and none after it started, and
\* when the run has ended the transcript and copied files of every contact
\* exported earlier are on disk as they were written.
C5_AsClaimed ==
    /\ Len(exported) = Len(produced)
    /\ pc \notin {"loop", "done"} => Len(exported) = idx - 1
    /\ pc = "failed" => ~ENABLED Next
    /\ pc \in {"done", "failed"} =>
          \A k \in 1..Len(produced) : StillOnDisk(produced[k])

\* C7 as claimed: a written line carries the not-found note exactly when the
\* row records a file, media export is on, and the resolution that was made
\* failed; it carries the final name exactly when the file was resolved and
\* copied; it carries nothing otherwise; and a not-found line's annotation
\* differs from a copied line's.
C7_AsClaimed ==
    pc \in {"rows", "return"} =>
        \A i \in 1..Len(Lines(San)) :
            LET notes == Lines(San)[i].attachments
                failed == /\ HasFilename(rows[i]) /\ include_media
                          /\ log[i].attempted /\ log[i].outcome = "not_found"
                copied == log[i].outcome = "copied"
            IN  /\ notes = <<NOT_FOUND_NOTE>> <=> failed
                /\ (notes # <<>> /\ notes # <<NOT_FOUND_NOTE>>) <=> copied
                /\ copied => notes = <<BaseName(log[i].dest)>>
                /\ notes = <<>> <=> (~failed /\ ~copied)

\* C8: with media export off, a step changes no attachment directory and
\* copies no file, and the only transcript it changes is the current contact's,
\* while that transcript is open.
C8_MediaOffTouchesOnlyTranscript ==
    [][~include_media =>
          /\ mediaDirs' = mediaDirs
          /\ strays' = strays
          /\ \A s \in SanNames :
                transcripts'[s] # transcripts[s] =>
                    pc \in {"open", "rows"} /\ s = San]_vars

\* a contact whose row records a resolvable file was exported over leftover
\* outputs with overwrite set, an attachments root given, and media export off
C8_Witness ==
    /\ ~include_media /\ overwrite /\ attachments_root # None
    /\ pc = "return"
    /\ HasFilename(rows[1])
    /\ atEntry.transcripts[San] # None /\ atEntry.mediaDirs[San] # None
    /\ mediaDirs[San] = Some({OldFile})

\* C9 as claimed: with overwrite set, the second of two runs over the same
\* store, root and contacts, once it has exported every contact, leaves every
\* transcript as the first run left it.
C9_AsClaimed ==
    (run = 2 /\ overwrite /\ pc = "done") => transcripts = firstRun

HasMarker(frag) == \E i \in 1..Len(frag) : frag[i] = MARKER

\* what the resolver is to return when the leftmost marker of frag is at i
ByCandidates(frag, i, result) ==
    LET remainder == SubSeq(frag, i + 1, Len(frag))
        primary == <<MARKER>> \o remainder
    IN  IF RootExists(root, primary) THEN result = Found(primary)
        ELSE IF RootExists(root, remainder) THEN result = Found(remainder)
        ELSE result = NotFound

Leftmost(frag, i) == frag[i] = MARKER /\ \A j \in 1..(i - 1) : frag[j] # MARKER

\* C6 as claimed: without a marker in the fragment the fallback candidate, the
\* root with nothing below it, is tried and returned when it exists.
C6_AsClaimed ==
    (ra_result # None /\ ra_raw # None /\ ra_raw # Some(<<>>)) =>
        IF HasMarker(ra_raw[1])
        THEN \E i \in 1..Len(ra_raw[1]) :
                Leftmost(ra_raw[1], i) /\ ByCandidates(ra_raw[1], i, ra_result[1])
        ELSE IF RootExists(root, <<>>) THEN ra_result[1] = Found(<<>>)
        ELSE ra_result[1] = NotFound

\* C6: with the marker in the fragment, the primary candidate
\* root/Library/SMS/Attachments/<remainder> is returned when it exists, else the
\* fallback root/<remainder> when that exists, else not-found; with no marker
\* (or a null or empty fragment) the result is not-found and no candidate is
\* tried.
C6_Resolves ==
    ra_result # None =>
        IF ra_raw # None /\ HasMarker(ra_raw[1])
        THEN \E i \in 1..Len(ra_raw[1]) :
                Leftmost(ra_raw[1], i) /\ ByCandidates(ra_raw[1], i, ra_result[1])
        ELSE ra_result[1] = NotFound

\* a fragment without the marker that names a file lying directly below the
\* root was resolved, to not-found
C6_Witness ==
    /\ ra_result = Some(NotFound)
    /\ ra_raw = Some(<<"ab", "p.j">>)
    /\ <<"ab", "p.j">> \in root

\* C10 as claimed: an integer above 10^12 yields the epoch plus t/10^9 seconds,
\* an integer in 1..10^12 the epoch plus t seconds, zero, null and what int()
\* rejects yield unknown, and no input raises.
C10_AsClaimed ==
    ts_result # None =>
        LET v == ts_value
            n == v.limbs
            r == ts_result[1]
        IN  /\ r.tag # "raise"
            /\ (v.kind = "int" /\ ~v.neg /\ Gt3(n, NanoThreshold)) =>
                  r = Datetime(FALSE, <<n[1], n[2]>>, RoundMicro(n[3]))
            /\ (v.kind = "int" /\ ~v.neg /\ n # <<0, 0, 0>> /\ ~Gt3(n, NanoThreshold)) =>
                  r = Datetime(FALSE, <<n[2], n[3]>>, 0)
            /\ (v.kind \in {"null", "text", "nan"} \/ (v.kind = "int" /\ n = <<0, 0, 0>>)) =>
                  r = NoDatetime

====
